---- MODULE Spec2Model ----
(***************************************************************************)
(* A model of the mDNS responder of mikulicf/mdns (server.go): the         *)
(* constructor NewServer, Shutdown, the receive loop recv with             *)
(* parsePacket / handleQuery / handleQuestion / sendResponse, and the      *)
(* re-registration loop NewServerWithTicker.                               *)
(*                                                                         *)
(* A Go panic that nobody recovers ends the whole process; the variable    *)
(* crashed records it and every action is disabled from then on.           *)
(***************************************************************************)
EXTENDS Integers, Sequences, FiniteSets, TLC

\* ------------------------------------------------------------------ bounds

\* Longest question section of an inbound query.
MaxQuestions == 2
\* Packets the network delivers to one process run.
MaxPackets == 2
\* Shutdown calls each application task issues on the instance it holds.
MaxCalls == 1
\* Ticks of the re-registration ticker that are delivered.
MaxTicks == 2

\* ------------------------------------------------------- program constants

\* dns.OpcodeQuery
OpcodeQuery == 0
\* The unicast-response bit of a question's class, 1<<15.
UnicastBit == 32768
\* const forceUnicastResponses = false
forceUnicastResponses == FALSE
\* A nil pointer / a nil *net.UDPConn.
Nil == 0

\* Application tasks that may call Shutdown concurrently.
Callers == {"c1", "c2"}
\* The task running NewServerWithTicker.
Supervisor == "sup"
Procs == Callers \cup {Supervisor}

\* ------------------------------------------------------------ the Zone

Names == {"host.local.", "svc.local.", "none.local."}
\* Question classes on the wire: IN, and IN with the unicast-response bit.
Qclasses == {1, 1 + UnicastBit}
Questions == [Name : Names, Qclass : Qclasses]

\* Zone.Records: the ordered records the Zone owns for a question.
ZoneRecords(q) ==
    CASE q.Name = "host.local." -> <<"A:host">>
      [] q.Name = "svc.local."  -> <<"PTR:svc", "SRV:svc">>
      [] OTHER                  -> <<>>

\* ------------------------------------------------------------ messages

RECURSIVE SeqsUpTo(_, _)
SeqsUpTo(S, n) ==
    IF n = 0 THEN {<<>>}
    ELSE LET shorter == SeqsUpTo(S, n - 1)
         IN  shorter \cup {Append(s, x) : s \in {t \in shorter : Len(t) = n - 1}, x \in S}

QueryIds == {0, 7}
Opcodes == {0, 1}
Rcodes == {0, 3}

\* What ReadFrom hands to parsePacket: the payload (decodable or not, with the
\* header and question section msg.Unpack yields) and the sender's family.
Packets(fam) ==
    [wellFormed : {TRUE}, Id : QueryIds, Opcode : Opcodes, Rcode : Rcodes,
     Truncated : BOOLEAN, Question : SeqsUpTo(Questions, MaxQuestions), from : {fam}]
    \cup
    [wellFormed : {FALSE}, Id : {0}, Opcode : {0}, Rcode : {0},
     Truncated : {FALSE}, Question : {<<>>}, from : {fam}]

NoPacket ==
    [wellFormed |-> FALSE, Id |-> 0, Opcode |-> 0, Rcode |-> 0,
     Truncated |-> FALSE, Question |-> <<>>, from |-> "none"]

\* ------------------------------------------------------------ handleQuery

\* Fault variant of QueryRejected: the truncation bit is not looked at.
QueryRejectedNoTC(query) ==
    \/ query.Opcode # OpcodeQuery
    \/ query.Rcode # 0

\* The three checks at the top of handleQuery.
QueryRejected(query) ==
    \/ query.Opcode # OpcodeQuery
    \/ query.Rcode # 0
    \/ query.Truncated

\* q.Qclass&(1<<15) != 0
TopBit(qclass) == (qclass \div UnicastBit) % 2 = 1

\* Fault variant of handleQuestion: the class top bit is not looked at.
handleQuestionAllMulticast(q) ==
    LET records == ZoneRecords(q)
    IN  IF Len(records) = 0 THEN [m |-> <<>>, u |-> <<>>]
        ELSE [m |-> records, u |-> <<>>]

\* handleQuestion: (multicastRecs, unicastRecs) for one question.
handleQuestion(q) ==
    LET records == ZoneRecords(q)
    IN  IF Len(records) = 0 THEN [m |-> <<>>, u |-> <<>>]
        ELSE IF TopBit(q.Qclass) \/ forceUnicastResponses
             THEN [m |-> <<>>, u |-> records]
             ELSE [m |-> records, u |-> <<>>]

\* The loop of handleQuery over query.Question, appending to both answers.
RECURSIVE Accumulate(_, _)
Accumulate(questions, acc) ==
    IF questions = <<>> THEN acc
    ELSE LET r == handleQuestion(Head(questions))
         IN  Accumulate(Tail(questions), [m |-> acc.m \o r.m, u |-> acc.u \o r.u])

Answers(query) == Accumulate(query.Question, [m |-> <<>>, u |-> <<>>])

\* The message a missing reply stands for (resp returning nil).
NoMsg == [nil |-> TRUE]

\* Fault variant of resp: the query's id is copied on both paths.
respQueryId(query, unicast, answers) ==
    LET answer == IF unicast THEN answers.u ELSE answers.m
    IN  IF Len(answer) = 0 THEN NoMsg
        ELSE [nil |-> FALSE, Id |-> query.Id, Response |-> TRUE, Opcode |-> OpcodeQuery,
              Authoritative |-> TRUE, Truncated |-> FALSE, RecursionDesired |-> FALSE,
              RecursionAvailable |-> FALSE, Zero |-> FALSE, AuthenticatedData |-> FALSE,
              CheckingDisabled |-> FALSE, Rcode |-> 0, Compress |-> TRUE,
              Answer |-> answer]

\* The closure resp of handleQuery; NoMsg when the path's answer is empty.
resp(query, unicast, answers) ==
    LET id == IF unicast THEN query.Id ELSE 0
        answer == IF unicast THEN answers.u ELSE answers.m
    IN  IF Len(answer) = 0 THEN NoMsg
        ELSE [nil |-> FALSE, Id |-> id, Response |-> TRUE, Opcode |-> OpcodeQuery,
              Authoritative |-> TRUE, Truncated |-> FALSE, RecursionDesired |-> FALSE,
              RecursionAvailable |-> FALSE, Zero |-> FALSE, AuthenticatedData |-> FALSE,
              CheckingDisabled |-> FALSE, Rcode |-> 0, Compress |-> TRUE,
              Answer |-> answer]

\* ------------------------------------------------------------------ state

VARIABLES
    config,    \* the Config the application passes: [Ipv6, LogEmptyResponses]
    socks,     \* every UDP socket bound so far: [net, open, closeCalls]
    servers,   \* every Server object returned so far (struct Server)
    tasks,     \* every goroutine started by "go s.recv(c)"
    sd,        \* per calling task: the Shutdown call it is in, or was last in
    app,       \* a task that calls NewServer directly and keeps the instance
    sup,       \* the task running NewServerWithTicker, and where the server
               \* command hosting it is (cmd)
    ctor,      \* history: one entry per NewServer call
    reads,     \* packets delivered so far
    crashed    \* the process has ended: an unrecovered panic, a fatal signal
               \* or the return of main

vars == <<config, socks, servers, tasks, sd, app, sup, ctor, reads, crashed>>

Configs == [Ipv6 : BOOLEAN, LogEmptyResponses : BOOLEAN]

\* A socket as returned by net.ListenMulticastUDP.
NewSock(net) == [net |-> net, open |-> TRUE, closeCalls |-> 0]

\* The sender family a socket of this network receives from.
Family(net) == IF net = "udp4" THEN "v4" ELSE "v6"

\* A goroutine "go s.recv(c)" that has not run yet. Of the packet in hand it
\* keeps the answers, the questions handed to Zone.Records (zcalls), the paths
\* sendResponse was called for (tried), the replies written (sent) and the
\* lines logged; over its life it counts the packets read (n) and those whose
\* handling began with the shutdown flag set (after), and remembers whether an
\* iteration has failed (failed).
NewTask(srv, conn) ==
    [srv |-> srv, conn |-> conn, pc |-> "start", n |-> 0, pkt |-> NoPacket,
     ans |-> [m |-> <<>>, u |-> <<>>], sent |-> <<>>, logs |-> 0, errlogs |-> 0,
     res |-> "none", zcalls |-> <<>>, tried |-> <<>>, failed |-> FALSE, after |-> 0]

\* s := &Server{config: config, ipv4List: ipv4List, shutdownCh: make(chan struct{})}
ServerV4(sock4) ==
    [config |-> "cfg", ipv4List |-> sock4, ipv6List |-> Nil,
     shutdown |-> 0, shutdownCh |-> "open"]

\* s = &Server{ipv6List: ipv6List}: every other field has its zero value.
ServerV6(sock6) ==
    [config |-> "nil", ipv4List |-> Nil, ipv6List |-> sock6,
     shutdown |-> 0, shutdownCh |-> "nil"]

\* NewServer(config), with the outcome of the two binds (b4, b6) chosen by the
\* environment: the sockets, the Server and the goroutines the call leaves
\* behind, the *Server it returns (Nil with an error) and the sockets it bound.
NewServer(b4, b6) ==
    LET sock4 == Len(socks) + 1
        sock6 == sock4 + 1
        id    == Len(servers) + 1
        with4 == Append(socks, NewSock("udp4"))
    IN  IF ~b4
        THEN [err |-> TRUE, srv |-> Nil, socks |-> socks, servers |-> servers,
              tasks |-> tasks, bound |-> {}]
        ELSE IF ~config.Ipv6
        THEN [err |-> FALSE, srv |-> id, socks |-> with4,
              servers |-> Append(servers, ServerV4(sock4)),
              tasks |-> Append(tasks, NewTask(id, sock4)), bound |-> {sock4}]
        ELSE IF ~b6
        THEN [err |-> TRUE, srv |-> Nil, socks |-> with4, servers |-> servers,
              tasks |-> tasks, bound |-> {sock4}]
        ELSE [err |-> FALSE, srv |-> id,
              socks |-> Append(with4, NewSock("udp6")),
              servers |-> Append(servers, ServerV6(sock6)),
              tasks |-> tasks \o <<NewTask(id, sock6), NewTask(id, Nil)>>,
              bound |-> {sock4, sock6}]

\* The history entry of one NewServer call.
CtorEntry(by, r) ==
    [by |-> by, ipv6 |-> config.Ipv6, srv |-> r.srv, err |-> r.err, bound |-> r.bound]

IdleCall ==
    [pc |-> "idle", srv |-> Nil, first |-> FALSE, ret |-> "none",
     closeErr |-> FALSE, calls |-> 0]

Init ==
    /\ config \in Configs
    /\ socks = <<>>
    /\ servers = <<>>
    /\ tasks = <<>>
    /\ sd = [p \in Procs |-> IdleCall]
    /\ app = [pc |-> "init", server |-> Nil]
    /\ sup = [pc |-> "enter", server |-> Nil, ticker |-> FALSE, ticks |-> 0,
              shut |-> 0, built |-> 0, err |-> FALSE, cmd |-> "ticker"]
    /\ ctor = <<>>
    /\ reads = 0
    /\ crashed = FALSE

\* ------------------------------------------------------------ application

\* The application calls NewServer(config) and keeps what it returns.
AppNewServer ==
    /\ ~crashed
    /\ app.pc = "init"
    /\ \E b4 \in BOOLEAN, b6 \in BOOLEAN :
         LET r == NewServer(b4, b6)
         IN  /\ socks' = r.socks
             /\ servers' = r.servers
             /\ tasks' = r.tasks
             /\ ctor' = Append(ctor, CtorEntry("app", r))
             /\ app' = [pc |-> IF r.err THEN "failed" ELSE "running", server |-> r.srv]
    /\ UNCHANGED <<config, sd, sup, reads, crashed>>

\* An application task calls Shutdown on the instance the application holds.
CallShutdown(p) ==
    /\ ~crashed
    /\ app.pc = "running"
    /\ sd[p].pc \in {"idle", "done"}
    /\ sd[p].calls < MaxCalls
    /\ sd' = [sd EXCEPT ![p] = [pc |-> "cas", srv |-> app.server, first |-> FALSE,
                                  ret |-> "none", closeErr |-> FALSE,
                                  calls |-> sd[p].calls + 1]]
    /\ UNCHANGED <<config, socks, servers, tasks, app, sup, ctor, reads, crashed>>

\* ------------------------------------------------------------ Shutdown

\* atomic.CompareAndSwapInt32(&s.shutdown, 0, 1): the new flag and whether
\* this caller swapped it.
CompareAndSwap(flag) ==
    IF flag = 0 THEN [flag |-> 1, swapped |-> TRUE]
    ELSE [flag |-> flag, swapped |-> FALSE]

\* Shutdown, first statement: the loser of the compare-and-swap returns nil.
ShutdownCAS(p) ==
    /\ ~crashed
    /\ sd[p].pc = "cas"
    /\ LET s == sd[p].srv
           c == CompareAndSwap(servers[s].shutdown)
       IN  /\ servers' = [servers EXCEPT ![s].shutdown = c.flag]
           /\ sd' = [sd EXCEPT ![p].first = c.swapped,
                               ![p].pc = IF c.swapped THEN "closeCh" ELSE "done",
                               ![p].ret = IF c.swapped THEN "none" ELSE "nil"]
    /\ UNCHANGED <<config, socks, tasks, app, sup, ctor, reads, crashed>>

\* close(s.shutdownCh): closing a nil channel panics.
ShutdownCloseCh(p) ==
    /\ ~crashed
    /\ sd[p].pc = "closeCh"
    /\ LET s == sd[p].srv
       IN  IF servers[s].shutdownCh = "open"
           THEN /\ servers' = [servers EXCEPT ![s].shutdownCh = "closed"]
                /\ sd' = [sd EXCEPT ![p].pc = "close4"]
                /\ UNCHANGED crashed
           ELSE /\ crashed' = TRUE
                /\ sd' = [sd EXCEPT ![p].pc = "panicked"]
                /\ UNCHANGED servers
    /\ UNCHANGED <<config, socks, tasks, app, sup, ctor, reads>>

\* Fault variant of CloseSock: Close is counted but leaves the socket open.
CloseSockLeftOpen(ss, k) ==
    [ss EXCEPT ![k].closeCalls = ss[k].closeCalls + 1]

\* (*net.UDPConn).Close on socket k: the socket is closed whatever Close returns.
CloseSock(ss, k) ==
    [ss EXCEPT ![k].open = FALSE, ![k].closeCalls = ss[k].closeCalls + 1]

\* if s.ipv4List != nil { s.ipv4List.Close() }: the result of Close is dropped.
ShutdownClose4(p) ==
    /\ ~crashed
    /\ sd[p].pc = "close4"
    /\ LET s == sd[p].srv
       IN  IF servers[s].ipv4List # Nil
           THEN \E failed \in BOOLEAN :
                  /\ socks' = CloseSock(socks, servers[s].ipv4List)
                  /\ sd' = [sd EXCEPT ![p].pc = "close6",
                                      ![p].closeErr = sd[p].closeErr \/ failed]
           ELSE /\ sd' = [sd EXCEPT ![p].pc = "close6"]
                /\ UNCHANGED socks
    /\ UNCHANGED <<config, servers, tasks, app, sup, ctor, reads, crashed>>

\* What Shutdown returns after the closes.
ShutdownResult(closeErr) == "nil"

\* if s.config.Ipv6 { if s.ipv6List != nil { s.ipv6List.Close() } }; return nil
ShutdownClose6(p) ==
    /\ ~crashed
    /\ sd[p].pc = "close6"
    /\ LET s == sd[p].srv
       IN  IF servers[s].config = "nil"
           THEN /\ crashed' = TRUE
                /\ sd' = [sd EXCEPT ![p].pc = "panicked"]
                /\ UNCHANGED socks
           ELSE IF config.Ipv6 /\ servers[s].ipv6List # Nil
           THEN \E failed \in BOOLEAN :
                  /\ socks' = CloseSock(socks, servers[s].ipv6List)
                  /\ sd' = [sd EXCEPT ![p].pc = "done",
                               ![p].closeErr = sd[p].closeErr \/ failed,
                               ![p].ret = ShutdownResult(sd[p].closeErr \/ failed)]
                  /\ UNCHANGED crashed
           ELSE /\ sd' = [sd EXCEPT ![p].pc = "done",
                                    ![p].ret = ShutdownResult(sd[p].closeErr)]
                /\ UNCHANGED <<socks, crashed>>
    /\ UNCHANGED <<config, servers, tasks, app, sup, ctor, reads>>

\* ------------------------------------------------------------ recv

\* Outcomes the environment chooses for one sendResponse: the codec packs the
\* message or not, the socket write succeeds or not.
SendOutcomes == {"ok", "packErr", "writeErr"}

\* sendResponse(resp, from, unicast) on Server s under outcome o: whether it
\* panics, whether it returns an error, and the socket written to (Nil: none).
sendResponse(s, from, o) ==
    LET conn == IF from = "v4" THEN s.ipv4List ELSE s.ipv6List
        write == IF conn = Nil \/ ~socks[conn].open \/ o = "writeErr"
                 THEN [panic |-> FALSE, err |-> TRUE, wrote |-> Nil]
                 ELSE [panic |-> FALSE, err |-> FALSE, wrote |-> conn]
    IN  IF o = "packErr" THEN [panic |-> FALSE, err |-> TRUE, wrote |-> Nil]
        ELSE IF from = "v4" THEN write
        ELSE IF s.config = "nil" THEN [panic |-> TRUE, err |-> FALSE, wrote |-> Nil]
        ELSE IF config.Ipv6 THEN write
        ELSE [panic |-> FALSE, err |-> FALSE, wrote |-> Nil]

\* Goroutine ids: NewServer starts at most two receive goroutines, and it is
\* called once by the application and at most MaxTicks + 1 times by the supervisor.
Tasks == 1..(2 * (MaxTicks + 2))

\* recv, entry: "if c == nil { return }".
RecvStart(t) ==
    /\ ~crashed
    /\ t \in DOMAIN tasks
    /\ tasks[t].pc = "start"
    /\ tasks' = [tasks EXCEPT ![t].pc = IF tasks[t].conn = Nil THEN "exited" ELSE "check"]
    /\ UNCHANGED <<config, socks, servers, sd, app, sup, ctor, reads, crashed>>

\* The loop condition: atomic.LoadInt32(&s.shutdown) == 0. What the previous
\* iteration left behind (its packet, answers and replies) is gone by now.
RecvCheck(t) ==
    /\ ~crashed
    /\ t \in DOMAIN tasks
    /\ tasks[t].pc = "check"
    /\ tasks' = [tasks EXCEPT ![t] =
                   [NewTask(tasks[t].srv, tasks[t].conn) EXCEPT
                      !.n = tasks[t].n,
                      !.failed = tasks[t].failed,
                      !.after = tasks[t].after,
                      !.pc = IF servers[tasks[t].srv].shutdown = 0 THEN "read" ELSE "exited"]]
    /\ UNCHANGED <<config, socks, servers, sd, app, sup, ctor, reads, crashed>>

\* c.ReadFrom(buf) returns a packet: only an open socket delivers one.
RecvReadPacket(t) ==
    /\ ~crashed
    /\ t \in DOMAIN tasks
    /\ tasks[t].pc = "read"
    /\ socks[tasks[t].conn].open
    /\ reads < MaxPackets
    /\ \E pkt \in Packets(Family(socks[tasks[t].conn].net)) :
         tasks' = [tasks EXCEPT ![t] =
                     [NewTask(tasks[t].srv, tasks[t].conn) EXCEPT
                        !.pc = "parse", !.n = tasks[t].n + 1, !.pkt = pkt,
                        !.failed = tasks[t].failed, !.after = tasks[t].after]]
    /\ reads' = reads + 1
    /\ UNCHANGED <<config, socks, servers, sd, app, sup, ctor, crashed>>

\* c.ReadFrom(buf) returns an error (always, once the socket is closed):
\* "continue" goes back to the loop condition.
RecvReadError(t) ==
    /\ ~crashed
    /\ t \in DOMAIN tasks
    /\ tasks[t].pc = "read"
    /\ tasks' = [tasks EXCEPT ![t].pc = "check", ![t].failed = TRUE]
    /\ UNCHANGED <<config, socks, servers, sd, app, sup, ctor, reads, crashed>>

\* if s.config.LogEmptyResponses && len(multicastAnswer) == 0 && len(unicastAnswer) == 0
EmptyLogLines(logEmpty, answers) ==
    IF logEmpty /\ Len(answers.m) = 0 /\ Len(answers.u) = 0 THEN 1 ELSE 0

\* The questions the loop of handleQuery hands to Zone.Records (through
\* handleQuestion), one call per iteration.
RECURSIVE ZoneCalls(_)
ZoneCalls(questions) ==
    IF questions = <<>> THEN <<>>
    ELSE <<Head(questions)>> \o ZoneCalls(Tail(questions))

\* parsePacket and handleQuery up to the first send: decode, the three header
\* checks, the question loop (which dereferences s.config) and the diagnostic.
RecvParse(t) ==
    /\ ~crashed
    /\ t \in DOMAIN tasks
    /\ tasks[t].pc = "parse"
    /\ LET pkt == tasks[t].pkt
           s   == servers[tasks[t].srv]
           aft == tasks[t].after + (IF s.shutdown = 0 THEN 0 ELSE 1)
       IN  IF ~pkt.wellFormed
           THEN /\ tasks' = [tasks EXCEPT ![t].pc = "check", ![t].res = "decodeErr",
                                          ![t].errlogs = 2, ![t].failed = TRUE,
                                          ![t].after = aft]
                /\ UNCHANGED crashed
           ELSE IF QueryRejected(pkt)
           THEN /\ tasks' = [tasks EXCEPT ![t].pc = "check", ![t].res = "protoErr",
                                          ![t].errlogs = 1, ![t].failed = TRUE,
                                          ![t].after = aft]
                /\ UNCHANGED crashed
           ELSE IF s.config = "nil"
           THEN /\ tasks' = [tasks EXCEPT ![t].pc = "panicked", ![t].res = "panic",
                                          ![t].after = aft]
                /\ crashed' = TRUE
           ELSE /\ tasks' = [tasks EXCEPT ![t].pc = "msend", ![t].res = "resolved",
                                          ![t].after = aft,
                                          ![t].zcalls = ZoneCalls(pkt.Question),
                                          ![t].ans = Answers(pkt),
                                          ![t].logs = EmptyLogLines(config.LogEmptyResponses,
                                                                    Answers(pkt))]
                /\ UNCHANGED crashed
    /\ UNCHANGED <<config, socks, servers, sd, app, sup, ctor, reads>>

\* SendStep with the two replies in the other order: the unicast reply goes out
\* at the first send of handleQuery and the multicast reply at the second.
SendStepUnicastFirst(t, unicast, o) ==
    LET tk  == tasks[t]
        msg == resp(tk.pkt, ~unicast, tk.ans)
        r   == sendResponse(servers[tk.srv], tk.pkt.from, o)
        nxt == IF unicast THEN "check" ELSE "usend"
        fin == IF unicast THEN "ok" ELSE tk.res
    IN  IF msg.nil
        THEN /\ tasks' = [tasks EXCEPT ![t].pc = nxt, ![t].res = fin]
             /\ UNCHANGED crashed
        ELSE IF r.panic
        THEN /\ tasks' = [tasks EXCEPT ![t].pc = "panicked", ![t].res = "panic",
                                       ![t].tried = Append(tk.tried, ~unicast)]
             /\ crashed' = TRUE
        ELSE IF r.err
        THEN /\ tasks' = [tasks EXCEPT ![t].pc = "check", ![t].res = "sendErr",
                                       ![t].errlogs = 1, ![t].failed = TRUE,
                                       ![t].tried = Append(tk.tried, ~unicast)]
             /\ UNCHANGED crashed
        ELSE /\ tasks' = [tasks EXCEPT
                            ![t].pc = nxt, ![t].res = fin,
                            ![t].tried = Append(tk.tried, ~unicast),
                            ![t].sent = IF r.wrote = Nil THEN tk.sent
                                        ELSE Append(tk.sent, [sock |-> r.wrote,
                                                              unicast |-> ~unicast,
                                                              msg |-> msg])]
             /\ UNCHANGED crashed

\* One reply path of handleQuery: build resp(unicast) and, unless it is nil,
\* sendResponse it; an error returns from handleQuery and is logged by recv.
SendStep(t, unicast, o) ==
    LET tk  == tasks[t]
        msg == resp(tk.pkt, unicast, tk.ans)
        r   == sendResponse(servers[tk.srv], tk.pkt.from, o)
        nxt == IF unicast THEN "check" ELSE "usend"
        fin == IF unicast THEN "ok" ELSE tk.res
    IN  IF msg.nil
        THEN /\ tasks' = [tasks EXCEPT ![t].pc = nxt, ![t].res = fin]
             /\ UNCHANGED crashed
        ELSE IF r.panic
        THEN /\ tasks' = [tasks EXCEPT ![t].pc = "panicked", ![t].res = "panic",
                                       ![t].tried = Append(tk.tried, unicast)]
             /\ crashed' = TRUE
        ELSE IF r.err
        THEN /\ tasks' = [tasks EXCEPT ![t].pc = "check", ![t].res = "sendErr",
                                       ![t].errlogs = 1, ![t].failed = TRUE,
                                       ![t].tried = Append(tk.tried, unicast)]
             /\ UNCHANGED crashed
        ELSE /\ tasks' = [tasks EXCEPT
                            ![t].pc = nxt, ![t].res = fin,
                            ![t].tried = Append(tk.tried, unicast),
                            ![t].sent = IF r.wrote = Nil THEN tk.sent
                                        ELSE Append(tk.sent, [sock |-> r.wrote,
                                                              unicast |-> unicast,
                                                              msg |-> msg])]
             /\ UNCHANGED crashed

\* if mresp := resp(false); mresp != nil { sendResponse(mresp, from, false) }
RecvMSend(t) ==
    /\ ~crashed
    /\ t \in DOMAIN tasks
    /\ tasks[t].pc = "msend"
    /\ \E o \in SendOutcomes : SendStep(t, FALSE, o)
    /\ UNCHANGED <<config, socks, servers, sd, app, sup, ctor, reads>>

\* if uresp := resp(true); uresp != nil { sendResponse(uresp, from, true) }
RecvUSend(t) ==
    /\ ~crashed
    /\ t \in DOMAIN tasks
    /\ tasks[t].pc = "usend"
    /\ \E o \in SendOutcomes : SendStep(t, TRUE, o)
    /\ UNCHANGED <<config, socks, servers, sd, app, sup, ctor, reads>>

\* The steps of a receive loop that need no packet.
RecvIdle(t) ==
    \/ RecvStart(t)
    \/ RecvCheck(t)
    \/ RecvReadError(t)

\* The steps of a receive loop on a delivered packet.
RecvTraffic(t) ==
    \/ RecvReadPacket(t)
    \/ RecvParse(t)
    \/ RecvMSend(t)
    \/ RecvUSend(t)

ShutdownNext(p) ==
    \/ ShutdownCAS(p)
    \/ ShutdownCloseCh(p)
    \/ ShutdownClose4(p)
    \/ ShutdownClose6(p)

\* The responder serving queries: one NewServer call by the application, the
\* receive loops, the network delivering packets, and one application task
\* that may shut the instance down at any moment.
Next ==
    \/ AppNewServer
    \/ CallShutdown("c1")
    \/ ShutdownNext("c1")
    \/ \E t \in Tasks : RecvIdle(t) \/ RecvTraffic(t)

Spec == Init /\ [][Next]_vars

\* The responder being shut down: one NewServer call by the application and
\* Shutdown calls issued by concurrent application tasks, interleaved with each
\* other and with the receive loops (no packet arrives meanwhile).
NextShutdown ==
    \/ AppNewServer
    \/ \E p \in Callers : CallShutdown(p) \/ ShutdownNext(p)
    \/ \E t \in Tasks : RecvIdle(t)

SpecShutdown == Init /\ [][NextShutdown]_vars

\* ReadFrom on a closed socket returns an error: it does not block.
RecvReadClosed(t) ==
    /\ t \in DOMAIN tasks
    /\ tasks[t].pc = "read"
    /\ ~socks[tasks[t].conn].open
    /\ RecvReadError(t)

\* The Go scheduler runs every goroutine that can take a step: a Shutdown call
\* in progress and a receive loop that is not blocked in ReadFrom go on. A
\* read of an open socket may block for ever.
Fairness ==
    /\ WF_vars(ShutdownNext("c1"))
    /\ \A t \in Tasks :
          /\ WF_vars(RecvStart(t))
          /\ WF_vars(RecvCheck(t))
          /\ WF_vars(RecvReadClosed(t))
          /\ WF_vars(RecvParse(t))
          /\ WF_vars(RecvMSend(t))
          /\ WF_vars(RecvUSend(t))

SpecFair == Spec /\ Fairness

\* ------------------------------------------------------------ NewServerWithTicker

\* The supervisor is at "enter" when it calls registerServer (first from the
\* body of NewServerWithTicker, then once per tick), at "shutdown" while the
\* Shutdown of the previous server runs, at "construct" before NewServer, at
\* "wait" in "for range ticker.C" and at "returned" once it has returned an error.

\* registerServer, "if server != nil { server.Shutdown() ... }".
SupEnter ==
    /\ ~crashed
    /\ sup.pc = "enter"
    /\ IF sup.server # Nil
       THEN /\ sd' = [sd EXCEPT ![Supervisor] =
                        [pc |-> "cas", srv |-> sup.server, first |-> FALSE,
                         ret |-> "none", closeErr |-> FALSE,
                         calls |-> sd[Supervisor].calls + 1]]
            /\ sup' = [sup EXCEPT !.pc = "shutdown", !.shut = sup.shut + 1]
       ELSE /\ sup' = [sup EXCEPT !.pc = "construct"]
            /\ UNCHANGED sd
    /\ UNCHANGED <<config, socks, servers, tasks, app, ctor, reads, crashed>>

\* "if err := server.Shutdown(); err != nil { return err }": where
\* registerServer goes once Shutdown has returned ret.
AfterShutdown(ret) == IF ret # "nil" THEN "returned" ELSE "construct"

SupShutdownReturned ==
    /\ ~crashed
    /\ sup.pc = "shutdown"
    /\ sd[Supervisor].pc = "done"
    /\ sup' = [sup EXCEPT !.pc = AfterShutdown(sd[Supervisor].ret),
                          !.err = AfterShutdown(sd[Supervisor].ret) = "returned"]
    /\ UNCHANGED <<config, socks, servers, tasks, sd, app, ctor, reads, crashed>>

\* Fault variant of AfterRegister: the error of registerServer is dropped.
AfterRegisterIgnored(err) == "wait"

\* "err := registerServer(); if err != nil { return err }", in the body and in
\* the loop: where the supervisor goes once registerServer has returned err.
AfterRegister(err) == IF err THEN "returned" ELSE "wait"

\* "server, err = NewServer(config)", then the caller's check of the error;
\* after the first successful registration time.NewTicker starts the ticker.
SupConstruct ==
    /\ ~crashed
    /\ sup.pc = "construct"
    /\ \E b4 \in BOOLEAN, b6 \in BOOLEAN :
         LET r == NewServer(b4, b6)
         IN  /\ socks' = r.socks
             /\ servers' = r.servers
             /\ tasks' = r.tasks
             /\ ctor' = Append(ctor, CtorEntry(Supervisor, r))
             /\ sup' = [sup EXCEPT !.pc = AfterRegister(r.err),
                                   !.server = r.srv,
                                   !.built = sup.built + 1,
                                   !.err = r.err,
                                   !.ticker = sup.ticker \/ AfterRegister(r.err) = "wait"]
    /\ UNCHANGED <<config, sd, app, reads, crashed>>

\* The ticker fires: the loop body calls registerServer.
SupTick ==
    /\ ~crashed
    /\ sup.pc = "wait"
    /\ sup.ticker
    /\ sup.ticks < MaxTicks
    /\ sup' = [sup EXCEPT !.pc = "enter", !.ticks = sup.ticks + 1,
                          !.shut = 0, !.built = 0]
    /\ UNCHANGED <<config, socks, servers, tasks, sd, app, ctor, reads, crashed>>

\* The re-registration loop with the servers it creates and their receive
\* loops (no packet arrives meanwhile).
NextTicker ==
    \/ SupEnter
    \/ SupShutdownReturned
    \/ SupConstruct
    \/ SupTick
    \/ ShutdownNext(Supervisor)
    \/ \E t \in Tasks : RecvIdle(t)

SpecTicker == Init /\ [][NextTicker]_vars

\* ------------------------------------------------------------ cli server command

\* The command is at "ticker" inside its call of NewServerWithTicker, at
\* "sigwait" in "<-sigCh" after signal.Notify, at "exited" once Run has
\* returned on an error, at "signalExit" once it has returned on a signal and
\* at "signalled" when a signal has ended the process.

\* mdns.NewServerWithTicker(&mdns.Config{Zone: service, Ipv6: false, Iface: iface}, ...)
CmdConfig == [Ipv6 |-> FALSE, LogEmptyResponses |-> FALSE]

\* "if err != nil { log.Println(err); return }" after NewServerWithTicker has
\* returned err: Run returns and with it main, or the command goes on to
\* signal.Notify and "<-sigCh".
AfterTicker(err) == IF err THEN "exited" ELSE "sigwait"

CmdTickerReturned ==
    /\ ~crashed
    /\ sup.cmd = "ticker"
    /\ sup.pc = "returned"
    /\ sup' = [sup EXCEPT !.cmd = AfterTicker(sup.err)]
    /\ crashed' = (AfterTicker(sup.err) = "exited")
    /\ UNCHANGED <<config, socks, servers, tasks, sd, app, ctor, reads>>

\* SIGINT or SIGTERM arrives. Before signal.Notify the signal has its default
\* disposition and ends the process where it stands; in "<-sigCh" it is
\* received, Run returns (it has no statement after the receive) and main with it.
CmdSignal ==
    /\ ~crashed
    /\ sup.cmd \in {"ticker", "sigwait"}
    /\ sup' = [sup EXCEPT !.cmd = IF sup.cmd = "sigwait" THEN "signalExit" ELSE "signalled"]
    /\ crashed' = TRUE
    /\ UNCHANGED <<config, socks, servers, tasks, sd, app, ctor, reads>>

\* The server command: the supervisor it runs, and the signal.
NextCommand ==
    \/ NextTicker
    \/ CmdTickerReturned
    \/ CmdSignal

\* The command passes its own Config to NewServerWithTicker.
InitCommand == Init /\ config = CmdConfig

SpecCommand == InitCommand /\ [][NextCommand]_vars

\* ==================================================================== claims

NoAnswers == [m |-> <<>>, u |-> <<>>]

\* A packet whose handling has gone past the three header checks.
Resolving(tk) == tk.res \in {"resolved", "ok", "sendErr", "panic"}

\* A packet whose handling has ended (handleQuery returned or panicked).
HandlingOver(tk) == tk.n > 0 /\ tk.pc \in {"check", "panicked"} /\ tk.res # "none"

\* C1: a decoded message with a non-zero opcode, a non-zero response code or
\* the truncation bit set is answered on neither path: its handling ends right
\* after the checks with one local error line, nothing sent and no answer
\* resolved; and only a message passing all three checks is ever resolved.
C1_InvalidQueryNeverAnswered ==
    \A t \in DOMAIN tasks :
        LET tk == tasks[t]
            bad == tk.pkt.Opcode # 0 \/ tk.pkt.Rcode # 0 \/ tk.pkt.Truncated
        IN  /\ (tk.pkt.wellFormed /\ bad /\ tk.pc # "parse")
                  => /\ tk.pc = "check"
                     /\ tk.res = "protoErr"
                     /\ tk.sent = <<>>
                     /\ tk.ans = NoAnswers
                     /\ tk.errlogs = 1
                     /\ tk.logs = 0
            /\ (Resolving(tk) \/ tk.pc \in {"msend", "usend"})
                  => (tk.pkt.wellFormed /\ ~bad)

\* C1 witness: a truncated query for a name the Zone has records for was
\* dropped by the IPv4 receive loop.
C1_Witness ==
    \E t \in DOMAIN tasks :
        /\ tasks[t].res = "protoErr"
        /\ tasks[t].pc = "check"
        /\ tasks[t].pkt.Truncated
        /\ tasks[t].pkt.Opcode = 0
        /\ tasks[t].pkt.Rcode = 0
        /\ tasks[t].pkt.Question = <<[Name |-> "host.local.", Qclass |-> 1]>>

\* The records of the questions of qs whose unicast preference is top, in
\* question order (a class is 16 bits wide: the top bit is set from 32768 on).
RECURSIVE RecordsOf(_, _)
RecordsOf(qs, top) ==
    IF qs = <<>> THEN <<>>
    ELSE (IF (Head(qs).Qclass >= 32768) = top THEN ZoneRecords(Head(qs)) ELSE <<>>)
         \o RecordsOf(Tail(qs), top)

\* C2: in every resolved query the unicast answer set holds exactly the Zone's
\* records of the questions with the class top bit set and the multicast answer
\* set exactly those of the questions with the top bit clear: no question's
\* records land in the other set.
C2_TopBitRoutesAnswers ==
    \A t \in DOMAIN tasks :
        LET tk == tasks[t]
        IN  tk.res \in {"resolved", "ok", "sendErr"}
              => /\ tk.ans.u = RecordsOf(tk.pkt.Question, TRUE)
                 /\ tk.ans.m = RecordsOf(tk.pkt.Question, FALSE)

\* C2 witness: one query asked host.local. with the top bit clear and
\* svc.local. with it set, and was answered on both paths.
C2_Witness ==
    \E t \in DOMAIN tasks :
        /\ tasks[t].res = "ok"
        /\ tasks[t].pkt.Question = <<[Name |-> "host.local.", Qclass |-> 1],
                                     [Name |-> "svc.local.", Qclass |-> 32769]>>
        /\ tasks[t].ans = [m |-> <<"A:host">>, u |-> <<"PTR:svc", "SRV:svc">>]
        /\ Len(tasks[t].sent) = 2

\* C6: every reply written has the response bit set, opcode 0, the
\* authoritative bit set, every other header bit and the response code clear,
\* the answer set of its path as answer section, and id 0 on the multicast
\* path, the query's id on the unicast path.
C6_ReplyHeader ==
    \A t \in DOMAIN tasks :
        \A i \in DOMAIN tasks[t].sent :
            LET tk == tasks[t]
                r  == tk.sent[i]
            IN  /\ r.msg.Response
                /\ r.msg.Opcode = 0
                /\ r.msg.Authoritative
                /\ ~r.msg.Truncated
                /\ ~r.msg.RecursionDesired
                /\ ~r.msg.RecursionAvailable
                /\ ~r.msg.Zero
                /\ ~r.msg.AuthenticatedData
                /\ ~r.msg.CheckingDisabled
                /\ r.msg.Rcode = 0
                /\ r.msg.Answer = (IF r.unicast THEN tk.ans.u ELSE tk.ans.m)
                /\ r.msg.Answer # <<>>
                /\ r.msg.Id = (IF r.unicast THEN tk.pkt.Id ELSE 0)

\* C6 witness: a query with id 7 got a multicast reply with id 0 and then a
\* unicast reply with id 7.
C6_Witness ==
    \E t \in DOMAIN tasks :
        /\ tasks[t].pkt.Id = 7
        /\ Len(tasks[t].sent) = 2
        /\ ~tasks[t].sent[1].unicast /\ tasks[t].sent[1].msg.Id = 0
        /\ tasks[t].sent[2].unicast /\ tasks[t].sent[2].msg.Id = 7

\* The queries none of whose questions the Zone has a record for.
AllEmpty(qs) == \A i \in DOMAIN qs : ZoneRecords(qs[i]) = <<>>

\* C3: a question the Zone has nothing for adds nothing to either answer set;
\* a valid query all of whose questions are empty ends with no reply on either
\* path and with exactly one diagnostic line if the Config the server was built
\* from has LogEmptyResponses set, none otherwise; and a path whose answer set
\* is empty never carries a reply.
C3_EmptyQueryOnlyLogged ==
    \A t \in DOMAIN tasks :
        LET tk == tasks[t]
            valid == tk.pkt.wellFormed /\ tk.pkt.Opcode = 0 /\ tk.pkt.Rcode = 0
                     /\ ~tk.pkt.Truncated
        IN  /\ (valid /\ AllEmpty(tk.pkt.Question) /\ HandlingOver(tk))
                  => /\ tk.ans = NoAnswers
                     /\ tk.sent = <<>>
                     /\ tk.logs = (IF config.LogEmptyResponses THEN 1 ELSE 0)
            /\ tk.logs <= 1
            /\ \A i \in DOMAIN tk.sent :
                  (IF tk.sent[i].unicast THEN tk.ans.u ELSE tk.ans.m) # <<>>

\* The successful NewServer calls so far.
Built == {i \in DOMAIN ctor : ~ctor[i].err}

\* The receive goroutines of server s that have not returned.
Running(s) == {t \in DOMAIN tasks : tasks[t].srv = s /\ tasks[t].pc # "exited"}

\* The Shutdown calls on server s that are between their first and their
\* last statement.
InShutdown(s) ==
    {p \in Procs : sd[p].srv = s /\ sd[p].pc \in {"cas", "closeCh", "close4", "close6"}}

\* C4: whatever Config the instance was built from and however the Shutdown
\* calls on it interleave, no call panics, at most one call wins the
\* running-to-stopped transition, every finished call has returned nil with the
\* instance stopped, no bound socket is closed twice, and once no call is in
\* progress on a stopped instance each of its bound sockets was closed once.
C4_ShutdownIdempotent ==
    /\ \A p \in Procs : sd[p].pc # "panicked"
    /\ \A s \in DOMAIN servers :
          Cardinality({p \in Procs : sd[p].srv = s /\ sd[p].first}) <= 1
    /\ \A p \in Procs :
          sd[p].pc = "done" => (sd[p].ret = "nil" /\ servers[sd[p].srv].shutdown = 1)
    /\ \A i \in Built :
          \A k \in ctor[i].bound :
             /\ socks[k].closeCalls <= 1
             /\ (servers[ctor[i].srv].shutdown = 1 /\ InShutdown(ctor[i].srv) = {})
                   => (socks[k].closeCalls = 1 /\ ~socks[k].open)

\* C7: the instance a successful NewServer returns holds the IPv4 socket the
\* call bound, the IPv6 socket exactly when IPv6 was enabled, the Config and a
\* shutdown signal, and while it runs it has one receive goroutine per bound
\* socket, reading from that socket, and no other.
C7_InstanceOwnsSocketsAndTasks ==
    \A i \in Built :
        LET e == ctor[i]
            s == servers[e.srv]
        IN  /\ Cardinality(e.bound) = (IF e.ipv6 THEN 2 ELSE 1)
            /\ s.ipv4List \in e.bound
            /\ (s.ipv6List # Nil) <=> e.ipv6
            /\ s.ipv6List # Nil => s.ipv6List \in e.bound
            /\ s.config = "cfg"
            /\ s.shutdownCh # "nil"
            /\ (s.shutdown = 0 /\ ~crashed)
                  => /\ \A k \in e.bound :
                          Cardinality({t \in Running(e.srv) : tasks[t].conn = k}) = 1
                     /\ Cardinality(Running(e.srv)) = Cardinality(e.bound)

\* C8: when a Close fails during the Shutdown call that stops the instance,
\* that call returns a non-nil error, and the instance is stopped all the same.
C8_CloseErrorSurfaced ==
    \A p \in Procs :
        (sd[p].pc = "done" /\ sd[p].first /\ sd[p].closeErr)
           => (sd[p].ret = "err" /\ servers[sd[p].srv].shutdown = 1)

\* C10: no socket bound for an instance is closed before the instance's stop
\* flag is set, and once the Shutdown call that stops the instance has ended,
\* every socket its constructor bound is closed: the IPv4 socket, and the IPv6
\* socket when IPv6 was enabled.
C10_StopThenCloseAll ==
    \A i \in Built :
        LET e == ctor[i]
        IN  /\ \A k \in e.bound :
                  socks[k].closeCalls > 0 => servers[e.srv].shutdown = 1
            /\ \A p \in Procs :
                  (sd[p].srv = e.srv /\ sd[p].first /\ sd[p].pc \in {"done", "panicked"})
                     => \A k \in e.bound : ~socks[k].open

\* The servers the supervisor has built that are not stopped.
LiveOfSupervisor ==
    {i \in Built : ctor[i].by = Supervisor /\ servers[ctor[i].srv].shutdown = 0}

\* C5: a tick whose handling has ended made exactly one Shutdown call and
\* exactly one NewServer call; NewServer is called on a tick only after the
\* Shutdown of the previous server has returned; and the supervisor never has
\* two running servers.
C5_TickShutsDownThenBuilds ==
    /\ (sup.ticks > 0 /\ (sup.pc \in {"wait", "returned"} \/ crashed))
          => (sup.shut = 1 /\ sup.built = 1)
    /\ (sup.ticks > 0 /\ sup.pc = "construct")
          => (sup.shut = 1 /\ sd[Supervisor].pc = "done" /\ LiveOfSupervisor = {})
    /\ Cardinality(LiveOfSupervisor) <= 1

\* The NewServer calls the supervisor has made.
BySupervisor == {i \in DOMAIN ctor : ctor[i].by = Supervisor}

\* The state part of C9: what holds whenever a registration step has failed.
C9_Inv ==
    /\ \A i \in BySupervisor :
          ctor[i].err => /\ i = Len(ctor)
                         /\ sup.pc = "returned"
                         /\ sup.err
                         /\ sup.server = Nil
    /\ (\E i \in BySupervisor : i = 1 /\ ctor[i].err) => (~sup.ticker /\ sup.ticks = 0)
    /\ (sup.pc \in {"shutdown", "returned"} /\ sd[Supervisor].pc = "done"
        /\ sd[Supervisor].ret # "nil")
          => (sup.built = 0 /\ (sup.pc = "returned" => sup.err))
    /\ sup.pc = "returned" => (sup.err /\ InShutdown(sup.server) = {})

\* C9: a NewServer error is returned at once by the supervisor, before the
\* ticker exists when it is the first call's; a non-nil error of the previous
\* server's Shutdown is returned without calling NewServer; and once the
\* supervisor has returned it calls neither Shutdown nor NewServer again.
C9_RegistrationErrorsFatal ==
    /\ []C9_Inv
    /\ [][sup.pc = "returned" => (sup' = sup /\ ctor' = ctor /\ sd' = sd)]_vars

\* C9 witness: the first registration succeeded, a tick shut the server down,
\* the NewServer call of that tick failed and the supervisor returned.
C9_Witness ==
    /\ sup.pc = "returned"
    /\ sup.ticks = 1
    /\ Len(ctor) = 2
    /\ ~ctor[1].err
    /\ ctor[2].err
    /\ servers[ctor[1].srv].shutdown = 1

\* A Shutdown call has been issued on the instance the application holds.
ShutdownCalled == \E p \in Callers : sd[p].pc # "idle"

\* Every receive goroutine has left its loop.
AllExited == \A t \in DOMAIN tasks : tasks[t].pc = "exited"

\* The liveness statement of C11, for SpecFair.
ExitsAfterShutdown == ShutdownCalled ~> AllExited

\* C11: after Shutdown is called on an instance every receive task of the
\* instance eventually exits its loop; so when Shutdown has been called and
\* the program can take no further step, every receive task has exited.
C11_TasksExitAfterShutdown ==
    (ShutdownCalled /\ ~ENABLED Next) => AllExited

\* A decoded query that passes the header checks and asks for at least one
\* name the Zone has records for.
ValidWithRecords(pkt) ==
    /\ pkt.wellFormed
    /\ ~QueryRejected(pkt)
    /\ ~AllEmpty(pkt.Question)

\* C12: while the shutdown flag is not set no failure ends a receive task: a
\* task that was given a socket has left its loop only if the flag is set,
\* after a failed iteration with the flag clear the task goes on to read
\* again, and a valid query with matching records that the task handles after
\* an earlier failure is answered (its handling ends with the replies sent or
\* with a logged send failure, never with the task gone).
C12_FailuresDoNotStopTask ==
    \A t \in DOMAIN tasks :
        LET tk == tasks[t]
            s  == servers[tk.srv]
        IN  /\ (tk.pc = "exited" /\ tk.conn # Nil) => s.shutdown = 1
            /\ (tk.failed /\ tk.pc = "check" /\ s.shutdown = 0) => ENABLED RecvCheck(t)
            /\ (tk.failed /\ HandlingOver(tk) /\ ValidWithRecords(tk.pkt))
                  => /\ tk.res \in {"ok", "sendErr"}
                     /\ tk.res = "ok" => tk.sent # <<>>

\* The number of sendResponse calls made for the path (unicast or not) while
\* handling the packet in hand.
Attempts(tk, unicast) ==
    Cardinality({i \in DOMAIN tk.tried : tk.tried[i] = unicast})

\* C13: a failure while sending one reply does not affect the other reply:
\* when the handling of a valid query has returned, the multicast reply has
\* been attempted exactly once if the multicast answer set is non-empty and
\* not at all otherwise, and likewise the unicast reply for the unicast
\* answer set, whatever the outcome of the other send.
C13_EachReplyAttempted ==
    \A t \in DOMAIN tasks :
        LET tk == tasks[t]
        IN  (tk.pc = "check" /\ tk.res \in {"ok", "sendErr"})
              => /\ Attempts(tk, FALSE) = (IF tk.ans.m # <<>> THEN 1 ELSE 0)
                 /\ Attempts(tk, TRUE) = (IF tk.ans.u # <<>> THEN 1 ELSE 0)

\* The socket of network net that the NewServer call c bound (Nil: none).
BoundSock(c, net) ==
    IF \E k \in c.bound : socks[k].net = net
    THEN CHOOSE k \in c.bound : socks[k].net = net
    ELSE Nil

\* C14: on every instance NewServer has returned, before it is shut down, a
\* reply that packs and whose write succeeds goes out of the IPv4 socket of
\* the instance if the sender is IPv4; else out of its IPv6 socket if the
\* instance was built with IPv6 enabled; else nowhere, with no error.
C14_ReplyRoutedByFamily ==
    \A i \in Built :
        LET s  == servers[ctor[i].srv]
            r4 == sendResponse(s, "v4", "ok")
            r6 == sendResponse(s, "v6", "ok")
        IN  s.shutdown = 0
              => /\ ~r4.panic /\ ~r4.err
                 /\ r4.wrote # Nil
                 /\ r4.wrote = BoundSock(ctor[i], "udp4")
                 /\ ~r6.panic /\ ~r6.err
                 /\ IF ctor[i].ipv6
                    THEN r6.wrote # Nil /\ r6.wrote = BoundSock(ctor[i], "udp6")
                    ELSE r6.wrote = Nil

\* The state part of C15: a socket has one receive goroutine; the replies to
\* the packet a goroutine has in hand are at most one multicast reply followed
\* by at most one unicast reply, written while that packet is being handled.
C15_Inv ==
    \A t \in DOMAIN tasks :
        LET tk == tasks[t]
        IN  /\ \A t2 \in DOMAIN tasks :
                  (tk.conn # Nil /\ tasks[t2].conn = tk.conn) => t2 = t
            /\ Len(tk.sent) <= 2
            /\ \A i, j \in DOMAIN tk.sent :
                  i < j => (~tk.sent[i].unicast /\ tk.sent[j].unicast)
            /\ tk.sent # <<>> => (tk.n > 0 /\ tk.pc \in {"usend", "check"})
            /\ tk.pc = "read" => (tk.sent = <<>> /\ tk.tried = <<>> /\ tk.res = "none")

\* The step part of C15: a goroutine takes its next packet only from the read
\* at the top of its loop, and it writes a reply only from one of the two send
\* steps of the packet it has in hand.
C15_Step ==
    \A t \in DOMAIN tasks :
        /\ tasks'[t].n # tasks[t].n
              => (tasks[t].pc = "read" /\ tasks'[t].n = tasks[t].n + 1)
        /\ Len(tasks'[t].sent) > Len(tasks[t].sent)
              => /\ tasks[t].pc \in {"msend", "usend"}
                 /\ tasks'[t].pkt = tasks[t].pkt
                 /\ tasks'[t].n = tasks[t].n

\* C15: the packets of one socket are handled one after the other by the one
\* receive task of the socket, the handling of a packet and its sends being
\* over before the next packet is read; and of the two replies to one query
\* the multicast reply is written before the unicast reply, by the same task.
C15_HandledInOrder ==
    /\ []C15_Inv
    /\ [][C15_Step]_vars

\* C15 witness: a task has handled its second packet and has written both
\* replies to it, the multicast one first.
C15_Witness ==
    \E t \in DOMAIN tasks :
        /\ tasks[t].n = 2
        /\ tasks[t].res = "ok"
        /\ Len(tasks[t].sent) = 2
        /\ ~tasks[t].sent[1].unicast
        /\ tasks[t].sent[2].unicast

\* The number of records the Zone returns for the questions qs.
RECURSIVE TotalRecords(_)
TotalRecords(qs) ==
    IF qs = <<>> THEN 0 ELSE Len(ZoneRecords(Head(qs))) + TotalRecords(Tail(qs))

\* C16: once a valid query is past the question loop, Zone.Records has been
\* called exactly once per question in question order, the two answer sets
\* hold the Zone's records of the questions in question order and in the
\* Zone's order within a question, every record in exactly one of the sets;
\* and no reply is written before that.
C16_ZoneCalledOncePerQuestion ==
    \A t \in DOMAIN tasks :
        LET tk == tasks[t]
            qs == tk.pkt.Question
        IN  /\ (tk.pkt.wellFormed /\ ~QueryRejected(tk.pkt)
                   /\ tk.pc \in {"msend", "usend", "check", "panicked"})
                  => /\ tk.zcalls = qs
                     /\ tk.ans.m = RecordsOf(qs, FALSE)
                     /\ tk.ans.u = RecordsOf(qs, TRUE)
                     /\ Len(tk.ans.m) + Len(tk.ans.u) = TotalRecords(qs)
            /\ tk.sent # <<>> => tk.zcalls = qs

\* The sockets of the servers the supervisor has built.
SupervisorSocks ==
    UNION {ctor[i].bound : i \in {j \in Built : ctor[j].by = Supervisor}}

\* C17: the server command runs the supervisor until SIGINT or SIGTERM, and
\* when the signal has ended the command the live server has been shut down:
\* no server of the supervisor is left running and every socket of such a
\* server is closed.
C17_SignalShutsDownLiveServer ==
    sup.cmd \in {"signalled", "signalExit"}
        => /\ LiveOfSupervisor = {}
           /\ \A k \in SupervisorSocks : ~socks[k].open

\* The signal wait of the command is never reached.
SignalWaitUnreachable == sup.cmd # "sigwait"

\* C18: a NewServer call that returned an error has left nothing behind:
\* every socket it bound is closed and no receive goroutine reads one of them.
C18_FailedNewServerLeavesNothing ==
    \A i \in DOMAIN ctor :
        ctor[i].err
          => /\ \A k \in ctor[i].bound : ~socks[k].open
             /\ \A t \in DOMAIN tasks :
                   tasks[t].conn \in ctor[i].bound => tasks[t].pc = "exited"

\* The Shutdown call that set the flag of server s has returned.
FirstReturned(s) ==
    /\ servers[s].shutdown = 1
    /\ ~\E p \in Procs : sd[p].srv = s /\ sd[p].pc \in {"closeCh", "close4", "close6", "panicked"}

\* The state part of C19: a receive task has begun the handling of at most one
\* packet with the flag of its server set, and once the Shutdown call that set
\* the flag has returned the sockets of the server are closed.
C19_Inv ==
    /\ \A t \in DOMAIN tasks : tasks[t].after <= 1
    /\ \A s \in DOMAIN servers :
          FirstReturned(s)
            => \A k \in {servers[s].ipv4List, servers[s].ipv6List} \ {Nil} : ~socks[k].open

\* The step part of C19: once the Shutdown call that set the flag of a
\* server has returned, no step of a receive task of the server writes a reply.
C19_Step ==
    \A t \in DOMAIN tasks :
        FirstReturned(tasks[t].srv) => Len(tasks'[t].sent) <= Len(tasks[t].sent)

\* C19: however Shutdown and the receive tasks interleave, an instance writes
\* no reply after its first Shutdown call has returned, and each receive task
\* begins the handling of at most one packet after the flag was set.
C19_QuietAfterShutdown ==
    /\ []C19_Inv
    /\ [][C19_Step]_vars

\* C19 witness: Shutdown has returned while a task was handling a query it
\* began after the flag was set; the reply met the closed socket and none was
\* written.
C19_Witness ==
    \E t \in DOMAIN tasks :
        /\ FirstReturned(tasks[t].srv)
        /\ tasks[t].after = 1
        /\ tasks[t].pc = "check"
        /\ tasks[t].res = "sendErr"
        /\ tasks[t].tried = <<FALSE>>
        /\ tasks[t].sent = <<>>

====
